---------------------------- MODULE Spec2Model ----------------------------
(***************************************************************************)
(* Memoized layout/measure dispatch of Content (layout/mod.rs) and the     *)
(* axis algebra of the geometry container Spec<T> (geom/spec.rs).          *)
(*                                                                         *)
(* The dispatch is modelled as a call stack of activations of the          *)
(* memoized bodies `measure::cached` and `layout_document::cached`.  Each  *)
(* activation owns a fresh locator chained from its caller's, an extended  *)
(* route, and a program counter that walks the body statement by           *)
(* statement.  Route, Locator, realization and flow layout live outside    *)
(* the two source files; they are modelled from the specification.         *)
(* The world, the introspector and the tracer are held fixed during a run  *)
(* and therefore do not appear in the memoization key of the model.        *)
(***************************************************************************)
EXTENDS Integers, Sequences, FiniteSets, TLC

\* Route::MAX_LAYOUT_DEPTH, scaled down so that the call chain stays small.
MAX_LAYOUT_DEPTH == 3

\* Number of top-level calls issued on one engine.
MaxCalls == 2

\* Longest backlog of a region list.
MaxBacklog == 1

\* Largest component value of a Spec<T>.
MaxVal == 2

VARIABLES
    stack,      \* activations of the memoized bodies, innermost last
    cache,      \* memoization table of measure::cached and layout_document::cached
    locator,    \* the engine's locator (identity counter) of the top-level caller
    route,      \* the engine's route depth at the top-level caller
    rootStyles, \* the style chain in force at the top-level caller
    last,       \* the most recent top-level call and what it returned
    calls,      \* number of top-level calls issued
    committed,  \* locator value produced by the commits of layout alone
    okLayouts,  \* number of top-level layout calls that returned Ok
    idsLaidOut, \* identities carried by the fragments those calls returned
    visits,     \* number of visit_frames calls on the top-level locator
    steps,      \* steps taken by the top-level call in progress
    sp,         \* a Spec<T> value
    spPrev,     \* the Spec<T> value before the last geometry operation
    axis,       \* SpecAxis argument of the last geometry operation
    arg,        \* value / flag argument of the last geometry operation
    out,        \* result of the last geometry operation
    gop         \* name of the last geometry operation

layoutVars == <<stack, cache, locator, route, rootStyles, last, calls, committed,
                okLayouts, idsLaidOut, visits, steps>>
geomVars == <<sp, spPrev, axis, arg, out, gop>>
vars == <<stack, cache, locator, route, rootStyles, last, calls, committed, okLayouts,
          idsLaidOut, visits, steps, sp, spPrev, axis, arg, out, gop>>

---------------------------------------------------------------------------
(* Inputs *)

\* "flow" and "pflow" are FlowElem nodes; "plain" realizes to "pflow";
\* "bad" has a rewrite hook that raises; "rec" has a rewrite hook that
\* re-invokes layout on its own content.
Contents == {"flow", "pflow", "plain", "bad", "rec"}
RootContents == {"flow", "plain", "bad", "rec"}
Styles == {<<>>, <<"a">>}
RegionLists == {r \in [backlog : 0..MaxBacklog, repeat : BOOLEAN] :
                    r.repeat => r.backlog >= 1}
NoRegions == [backlog |-> 0, repeat |-> FALSE]
RouteDepths == 0..MAX_LAYOUT_DEPTH

Max(a, b) == IF a >= b THEN a ELSE b

---------------------------------------------------------------------------
(* Results *)

NoFrag == [len |-> 0, styles |-> <<>>, base |-> 0, ids |-> 0]
Ok(f) == [ok |-> TRUE, err |-> "none", frag |-> f]
Err(e) == [ok |-> FALSE, err |-> e, frag |-> NoFrag]
NoRes == Err("pending")

---------------------------------------------------------------------------
(* Route, Locator, realization and flow layout *)

\* Route::extend: one more link on the route.
Extend(r) == r + 1

\* Route::within: the route is no deeper than `depth`.
Within(r, depth) == r <= depth

\* Locator::chained: the fresh locator continues from the outer one's
\* identities without writing to it.
Chained(outer) == outer

\* Locator::visit_frames: register the identities carried by the frames.
VisitFrames(loc, frag) ==
    IF frag.ids = 0 THEN loc ELSE Max(loc, frag.base + frag.ids)

\* content.to_packed::<FlowElem>() is Some.
IsFlowElem(c) == c \in {"flow", "pflow"}

\* Regions a flow needs under the given styles (the style "a" enlarges the
\* content), and locatable elements it puts into each frame.
Need(flow, styles) ==
    IF flow = "flow" THEN 1
    ELSE IF \E i \in DOMAIN styles : styles[i] = "a" THEN 3 ELSE 2
Locatable(flow) == IF flow = "flow" THEN 0 ELSE 1

\* Regions the hook of "rec" passes to its nested layout call.
HookRegions == [backlog |-> 0, repeat |-> FALSE]

\* Page regions, read from the styles: one page template that repeats.
PageRegions(styles) == [backlog |-> 1, repeat |-> TRUE]

\* realize_flow / realize_doc: "err" - a rewrite hook raised; "hook" - a
\* rewrite hook re-invokes layout on the content; "ok" - the canonical
\* flow and the styles that go with it.
Realize(c, styles) ==
    [kind   |-> CASE c = "bad" -> "err"
                  [] c = "rec" -> "hook"
                  [] OTHER     -> "ok",
     flow   |-> IF c = "flow" THEN "flow" ELSE "pflow",
     styles |-> Append(styles, "r")]

\* FlowElem::layout: one frame per region consumed; RegionsExhausted when
\* content remains, the backlog is empty and no region repeats.  Elements
\* are located with the engine's (chained) locator.
FlowLayout(flow, styles, regions, loc) ==
    IF Need(flow, styles) <= regions.backlog + 1 \/ regions.repeat
    THEN Ok([len    |-> Need(flow, styles),
             styles |-> styles,
             base   |-> IF Locatable(flow) = 0 THEN 0 ELSE loc,
             ids    |-> Need(flow, styles) * Locatable(flow)])
    ELSE Err("RegionsExhausted")

---------------------------------------------------------------------------
(* Memoization *)

\* The memoized function behind an operation: layout goes through measure.
MemoFn(op) == IF op = "layout_document" THEN "layout_document" ELSE "measure"

\* Faults: a key that leaves out the regions, or the locator.
MemoKeyNoRegions(fn, content, rt, loc, styles, regions) ==
    <<fn, content, rt, loc, styles>>
MemoKeyNoLocator(fn, content, rt, loc, styles, regions) ==
    <<fn, content, rt, styles, regions>>

\* Arguments of `cached` that the memoization compares.
MemoKey(fn, content, rt, loc, styles, regions) ==
    <<fn, content, rt, loc, styles, regions>>

FrameKey(f) ==
    MemoKey(MemoFn(f.op), f.content, f.outerRoute, f.outerLoc, f.styles, f.regions)

Lookup(key) == {e \in cache : e.key = key}

\* The wrapper stores the result of a body it had to run.
Memoize(f) ==
    IF f.hit \/ Lookup(FrameKey(f)) # {} THEN cache
    ELSE cache \cup {[key |-> FrameKey(f), res |-> f.res]}

\* Fault: the body keeps the caller's route.
BodyRouteNotExtended(op, callerRoute) == callerRoute

\* route: Route::extend(route) in the engine a body builds for itself.
BodyRoute(op, callerRoute) == Extend(callerRoute)

\* A call of `cached`: a hit returns the stored result without running the
\* body; a miss starts the body with a chained locator and extended route.
Activation(op, c, s, r, callerRoute, callerLoc) ==
    LET key == MemoKey(MemoFn(op), c, callerRoute, callerLoc, s, r)
        hits == Lookup(key)
        isHit == hits # {}
    IN  [op         |-> op,
         content    |-> c,
         styles     |-> s,
         regions    |-> r,
         outerRoute |-> callerRoute,
         outerLoc   |-> callerLoc,
         route      |-> BodyRoute(op, callerRoute),
         unnested   |-> (op = "layout_document"),
         loc        |-> Chained(callerLoc),
         pc         |-> IF isHit THEN "ret"
                        ELSE IF op = "layout_document" THEN "realize" ELSE "check",
         hit        |-> isHit,
         checked    |-> "none",
         realized   |-> 0,
         flowRun    |-> FALSE,
         childErr   |-> "none",
         flow       |-> "none",
         flowStyles |-> <<>>,
         res        |-> IF isHit THEN (CHOOSE e \in hits : TRUE).res ELSE NoRes]

\* Fault: the commit is made only when the body ran.
CommitsMissOnly(f) == f.op = "layout" /\ f.res.ok /\ ~f.hit

\* Content::layout reaches engine.locator.visit_frames(&fragment): the `?`
\* on measure's result returns an error before it.
Commits(f) == f.op = "layout" /\ f.res.ok

\* Faults: the commit also made by measure; only the first frame visited.
LayoutCommitAnyOp(f, callerLoc) ==
    IF f.res.ok THEN VisitFrames(callerLoc, f.res.frag) ELSE callerLoc
LayoutCommitFirstFrame(f, callerLoc) ==
    IF f.op = "layout" /\ f.res.ok
    THEN VisitFrames(callerLoc, [f.res.frag EXCEPT !.ids = IF @ = 0 THEN 0 ELSE 1])
    ELSE callerLoc

\* The caller's locator after the operation returned: layout commits the
\* fragment, measure and layout_document leave the locator alone.
LayoutCommit(f, callerLoc) ==
    IF Commits(f) THEN VisitFrames(callerLoc, f.res.frag) ELSE callerLoc

\* The bodies of measure::cached and layout_document::cached run without
\* memoization, nested calls included.
RECURSIVE CachedBody(_, _, _, _, _, _)
CachedBody(op, c, s, r, callerRoute, callerLoc) ==
    LET rt == Extend(callerRoute)
        loc == Chained(callerLoc)
        rz == Realize(c, s)
        hook == CachedBody("layout", c, s, HookRegions, rt, loc)
        loc2 == IF rz.kind = "hook" THEN VisitFrames(loc, hook.frag) ELSE loc
    IN  IF op # "layout_document" /\ ~Within(rt, MAX_LAYOUT_DEPTH)
        THEN Err("depth")
        ELSE IF op # "layout_document" /\ IsFlowElem(c)
        THEN FlowLayout(c, s, r, loc)
        ELSE IF rz.kind = "err"
        THEN Err("hook")
        ELSE IF rz.kind = "hook" /\ ~hook.ok
        THEN hook
        ELSE IF op = "layout_document"
        THEN CachedBody("layout", rz.flow, rz.styles, PageRegions(rz.styles), rt, loc2)
        ELSE FlowLayout(rz.flow, rz.styles, r, loc2)

---------------------------------------------------------------------------
(* State *)

NoLast ==
    [op |-> "none", content |-> "none", styles |-> <<>>, regions |-> NoRegions,
     route |-> 0, locBefore |-> 0, locAfter |-> 0, res |-> NoRes, hit |-> FALSE]

GeomValues == 0..MaxVal
Axes == {"Horizontal", "Vertical"}

InitLayout ==
    /\ stack = <<>>
    /\ cache = {}
    /\ locator = 0
    /\ route \in RouteDepths
    /\ rootStyles \in Styles
    /\ last = NoLast
    /\ calls = 0
    /\ committed = 0
    /\ okLayouts = 0
    /\ idsLaidOut = 0
    /\ visits = 0
    /\ steps = 0

InitGeom ==
    /\ sp = [x |-> 0, y |-> 0]
    /\ spPrev = [x |-> 0, y |-> 0]
    /\ axis = "Horizontal"
    /\ arg = 0
    /\ out = 0
    /\ gop = "none"

Init == InitLayout /\ InitGeom

Top == stack[Len(stack)]
Busy == stack # <<>>

SetTop(f) == [stack EXCEPT ![Len(stack)] = f]

\* A top-level call on the engine.
RootCall(op, c, s, r) ==
    /\ stack = <<>>
    /\ calls < MaxCalls
    /\ stack' = <<Activation(op, c, s, r, route, locator)>>
    /\ calls' = calls + 1
    /\ steps' = 0
    /\ UNCHANGED <<cache, locator, route, rootStyles, last, committed, okLayouts,
                   idsLaidOut, visits>>
    /\ UNCHANGED geomVars

Measure ==
    \E c \in RootContents, r \in RegionLists :
        RootCall("measure", c, rootStyles, r)

Layout ==
    \E c \in RootContents, r \in RegionLists :
        RootCall("layout", c, rootStyles, r)

LayoutDocument ==
    \E c \in RootContents :
        RootCall("layout_document", c, rootStyles, NoRegions)

Quiet ==
    /\ steps' = steps + 1
    /\ UNCHANGED <<cache, locator, route, rootStyles, last, calls, committed,
                   okLayouts, idsLaidOut, visits>>
    /\ UNCHANGED geomVars

\* Fault: the guard looks at the caller's route, not the extended one.
DepthCheckCallerRoute ==
    /\ Busy
    /\ Top.pc = "check"
    /\ stack' = SetTop(
           IF Within(Top.outerRoute, MAX_LAYOUT_DEPTH)
           THEN [Top EXCEPT !.pc = "dispatch", !.checked = "pass"]
           ELSE [Top EXCEPT !.pc = "ret", !.checked = "fail", !.res = Err("depth")])
    /\ Quiet

\* if !engine.route.within(Route::MAX_LAYOUT_DEPTH) { bail!(...) }
DepthCheck ==
    /\ Busy
    /\ Top.pc = "check"
    /\ stack' = SetTop(
           IF Within(Top.route, MAX_LAYOUT_DEPTH)
           THEN [Top EXCEPT !.pc = "dispatch", !.checked = "pass"]
           ELSE [Top EXCEPT !.pc = "ret", !.checked = "fail", !.res = Err("depth")])
    /\ Quiet

\* Fault: no fast path, every content is realized.
FastPathNever ==
    /\ Busy
    /\ Top.pc = "dispatch"
    /\ stack' = SetTop([Top EXCEPT !.pc = "realize"])
    /\ Quiet

\* if let Some(flow) = content.to_packed::<FlowElem>() { return flow.layout(..) }
FastPath ==
    /\ Busy
    /\ Top.pc = "dispatch"
    /\ stack' = SetTop(
           IF IsFlowElem(Top.content)
           THEN [Top EXCEPT !.pc = "flow", !.flow = Top.content,
                            !.flowStyles = Top.styles]
           ELSE [Top EXCEPT !.pc = "realize"])
    /\ Quiet

\* realize_flow(..)? / realize_doc(..)?
RealizeStep ==
    /\ Busy
    /\ Top.pc = "realize"
    /\ LET rz == Realize(Top.content, Top.styles)
           f == [Top EXCEPT !.realized = Top.realized + 1]
       IN  stack' =
             CASE rz.kind = "err" ->
                    SetTop([f EXCEPT !.pc = "ret", !.res = Err("hook")])
               [] rz.kind = "hook" ->
                    Append(SetTop([f EXCEPT !.pc = "hook"]),
                           Activation("layout", f.content, f.styles, HookRegions,
                                      f.route, f.loc))
               [] OTHER ->
                    SetTop([f EXCEPT !.pc = IF f.op = "layout_document"
                                             THEN "doc" ELSE "flow",
                                     !.flow = rz.flow,
                                     !.flowStyles = rz.styles])
    /\ Quiet

\* flow.layout(&mut engine, styles, regions)
FlowStep ==
    /\ Busy
    /\ Top.pc = "flow"
    /\ LET res == FlowLayout(Top.flow, Top.flowStyles, Top.regions, Top.loc)
       IN  stack' = SetTop([Top EXCEPT !.pc = "ret",
                                       !.flowRun = TRUE,
                                       !.loc = Top.loc + res.frag.ids,
                                       !.res = res])
    /\ Quiet

\* document.layout(&mut engine, styles): the page lays out its realized flow.
DocStep ==
    /\ Busy
    /\ Top.pc = "doc"
    /\ stack' = Append(SetTop([Top EXCEPT !.pc = "page", !.flowRun = TRUE]),
                       Activation("layout", Top.flow, Top.flowStyles,
                                  PageRegions(Top.flowStyles), Top.route, Top.loc))
    /\ Quiet

\* Fault: a failed nested call is taken for an empty fragment.
ResumeSwallowsError(parent, child) ==
    LET rz == Realize(parent.content, parent.styles)
    IN  IF parent.pc = "page"
        THEN [parent EXCEPT !.pc = "ret", !.res = Ok(child.res.frag)]
        ELSE [parent EXCEPT !.pc = IF parent.op = "layout_document"
                                  THEN "doc" ELSE "flow",
                           !.flow = rz.flow,
                           !.flowStyles = rz.styles]

\* The caller of a nested call continues with what the call returned.
Resume(parent, child) ==
    IF ~child.res.ok
    THEN [parent EXCEPT !.pc = "ret", !.res = child.res]
    ELSE LET loc == LayoutCommit(child, parent.loc)
         IN  IF parent.pc = "page"
             THEN [parent EXCEPT !.pc = "ret", !.loc = loc, !.res = child.res]
             ELSE LET rz == Realize(parent.content, parent.styles)
                  IN  [parent EXCEPT !.pc = IF parent.op = "layout_document"
                                            THEN "doc" ELSE "flow",
                                     !.loc = loc,
                                     !.flow = rz.flow,
                                     !.flowStyles = rz.styles]

\* A nested call returns to the body that issued it.
NestedReturn ==
    /\ Len(stack) >= 2
    /\ Top.pc = "ret"
    /\ LET child == Top
           parent == stack[Len(stack) - 1]
       IN  /\ stack' = [SubSeq(stack, 1, Len(stack) - 1)
                           EXCEPT ![Len(stack) - 1] =
                               [Resume(parent, child)
                                   EXCEPT !.childErr = child.res.err]]
           /\ cache' = Memoize(child)
    /\ steps' = steps + 1
    /\ UNCHANGED <<locator, route, rootStyles, last, calls, committed, okLayouts,
                   idsLaidOut, visits>>
    /\ UNCHANGED geomVars

\* A top-level call returns to the engine's user.
RootReturn ==
    /\ Len(stack) = 1
    /\ Top.pc = "ret"
    /\ LET f == Top
           after == LayoutCommit(f, locator)
           okLayout == f.op = "layout" /\ f.res.ok
       IN  /\ stack' = <<>>
           /\ cache' = Memoize(f)
           /\ locator' = after
           /\ committed' = IF okLayout THEN VisitFrames(committed, f.res.frag)
                           ELSE committed
           /\ okLayouts' = IF okLayout THEN okLayouts + 1 ELSE okLayouts
           /\ idsLaidOut' = IF okLayout THEN idsLaidOut + f.res.frag.ids
                            ELSE idsLaidOut
           /\ visits' = IF Commits(f) THEN visits + 1 ELSE visits
           /\ steps' = 0
           /\ last' = [op |-> f.op, content |-> f.content, styles |-> f.styles,
                       regions |-> f.regions, route |-> f.outerRoute,
                       locBefore |-> locator, locAfter |-> after,
                       res |-> f.res, hit |-> f.hit]
    /\ UNCHANGED <<route, rootStyles, calls>>
    /\ UNCHANGED geomVars

Next ==
    \/ Measure
    \/ Layout
    \/ LayoutDocument
    \/ DepthCheck
    \/ FastPath
    \/ RealizeStep
    \/ FlowStep
    \/ DocStep
    \/ NestedReturn
    \/ RootReturn

Spec == Init /\ [][Next]_vars

---------------------------------------------------------------------------
(* Geometry: Spec<T> and SpecAxis *)

\* Spec::new
New(x, y) == [x |-> x, y |-> y]

\* Spec::splat
Splat(v) == [x |-> v, y |-> v]

\* The mapping functions handed to Spec::map.
MapFns == {"succ", "flip"}
Apply(f, v) == IF f = "succ" THEN (v + 1) % (MaxVal + 1) ELSE MaxVal - v

\* Spec::map
Map(s, f) == [x |-> Apply(f, s.x), y |-> Apply(f, s.y)]

\* Fault: the components are never swapped.
ToGenNoSwap(s, block) == <<s.x, s.y>>

\* Spec::to_gen: Gen::new(first, second)
ToGen(s, block) ==
    IF block = "Horizontal" THEN <<s.y, s.x>> ELSE <<s.x, s.y>>

\* Get<SpecAxis>::get
Get(s, a) == IF a = "Horizontal" THEN s.x ELSE s.y

\* A write through Get<SpecAxis>::get_mut
SetMut(s, a, v) ==
    IF a = "Horizontal" THEN [s EXCEPT !.x = v] ELSE [s EXCEPT !.y = v]

\* SpecAxis::dir
Dir(a, positive) ==
    CASE a = "Horizontal" /\ positive  -> "LTR"
      [] a = "Horizontal" /\ ~positive -> "RTL"
      [] a = "Vertical" /\ positive    -> "TTB"
      [] OTHER                         -> "BTT"

\* SpecAxis::other
Other(a) == IF a = "Horizontal" THEN "Vertical" ELSE "Horizontal"

InitSpecGeom ==
    /\ sp \in [x : GeomValues, y : GeomValues]
    /\ spPrev = sp
    /\ axis \in Axes
    /\ arg = 0
    /\ out = 0
    /\ gop = "none"
    /\ stack = <<>>
    /\ cache = {}
    /\ locator = 0
    /\ route = 0
    /\ rootStyles = <<>>
    /\ last = NoLast
    /\ calls = 0
    /\ committed = 0
    /\ okLayouts = 0
    /\ idsLaidOut = 0
    /\ visits = 0
    /\ steps = 0

GeomOp(name, a, v, s, o) ==
    /\ gop' = name
    /\ axis' = a
    /\ arg' = v
    /\ spPrev' = sp
    /\ sp' = s
    /\ out' = o
    /\ UNCHANGED layoutVars

NewOp == \E x \in GeomValues, y \in GeomValues :
             GeomOp("new", axis, x, New(x, y), out)

SplatOp == \E v \in GeomValues : GeomOp("splat", axis, v, Splat(v), out)

MapOp == \E f \in MapFns : GeomOp("map", axis, f, Map(sp, f), out)

ToGenOp == \E block \in Axes : GeomOp("to_gen", block, arg, sp, ToGen(sp, block))

GetOp == \E a \in Axes : GeomOp("get", a, arg, sp, Get(sp, a))

GetMutOp == \E a \in Axes, v \in GeomValues :
                GeomOp("get_mut", a, v, SetMut(sp, a, v), out)

DirOp == \E a \in Axes, positive \in BOOLEAN :
             GeomOp("dir", a, positive, sp, Dir(a, positive))

OtherOp == \E a \in Axes : GeomOp("other", a, arg, sp, Other(a))

NextGeom ==
    \/ NewOp
    \/ SplatOp
    \/ MapOp
    \/ ToGenOp
    \/ GetOp
    \/ GetMutOp
    \/ DirOp
    \/ OtherOp

SpecGeom == InitSpecGeom /\ [][NextGeom]_vars

---------------------------------------------------------------------------
(* Properties *)

\* The steps of a call in progress.
Step ==
    \/ DepthCheck
    \/ FastPath
    \/ RealizeStep
    \/ FlowStep
    \/ DocStep
    \/ NestedReturn
    \/ RootReturn

\* No call chain takes more steps than this: at most MAX_LAYOUT_DEPTH + 2
\* activations, each with at most five steps of its own.
StepBound == 5 * (MAX_LAYOUT_DEPTH + 2)

\* The result of running the body of an activation without memoization.
RefResult(f) ==
    CachedBody(f.op, f.content, f.styles, f.regions, f.outerRoute, f.outerLoc)

RegionCall(f) == f.op # "layout_document"

\* C1: measure leaves the caller's locator as it was: the locator always
\* equals what the commits of successful layout calls alone produce, a body
\* in progress starts from and never writes the caller's locator, and a
\* layout call, after any number of measure calls, starts from that same
\* baseline and advances the locator by the identities of its fragment.
C1_MeasureLeavesLocator ==
    /\ locator = committed
    /\ Busy => stack[1].outerLoc = locator /\ stack[1].outerLoc = committed
    /\ last.op = "measure" => last.locAfter = last.locBefore
    /\ (last.op = "layout" /\ last.res.ok /\ last.res.frag.ids > 0) =>
           /\ last.res.frag.base = last.locBefore
           /\ last.locAfter = last.locBefore + last.res.frag.ids

\* A layout call has computed its fragment right after a successful
\* measure call of the same content left the locator alone.
C1_Witness ==
    /\ Len(stack) = 1
    /\ Top.op = "layout" /\ Top.pc = "ret" /\ Top.res.ok /\ Top.res.frag.ids > 0
    /\ last.op = "measure" /\ last.res.ok /\ last.res.frag.ids > 0
    /\ Top.res.frag.base = last.locBefore

\* C2: in a chain of nested layout/measure calls no body passes the depth
\* guard beyond MAX_LAYOUT_DEPTH, every body within it passes, a body that
\* fails the guard sits exactly one past the maximum when its caller is
\* itself a guarded body, and the chain ends: it is never deeper than
\* MAX_LAYOUT_DEPTH + 1 activations, never longer than StepBound steps, and
\* a call in progress can always take its next step.
C2_DepthGuard ==
    /\ \A i \in DOMAIN stack :
         LET f == stack[i] IN
         (RegionCall(f) /\ ~f.hit) =>
             /\ f.checked = "pass" => f.route <= MAX_LAYOUT_DEPTH
             /\ f.checked = "fail" => f.route > MAX_LAYOUT_DEPTH
             /\ (f.realized > 0 \/ f.flowRun) => f.route <= MAX_LAYOUT_DEPTH
             /\ f.pc \notin {"check", "ret"} => f.checked = "pass"
             /\ (f.pc = "ret" /\ f.route <= MAX_LAYOUT_DEPTH) => f.checked = "pass"
             /\ (f.checked = "fail" /\ i > 1 /\ RegionCall(stack[i - 1])) =>
                    f.route = MAX_LAYOUT_DEPTH + 1
             /\ f.checked = "fail" => f.res = Err("depth")
    /\ Len(stack) <= MAX_LAYOUT_DEPTH + 1
    /\ steps <= StepBound
    /\ Busy => ENABLED Step

\* A self-referential chain has reached the guard one past the maximum.
C2_Witness ==
    /\ Len(stack) = MAX_LAYOUT_DEPTH + 1
    /\ \A i \in DOMAIN stack : stack[i].content = "rec" /\ RegionCall(stack[i])
    /\ Top.checked = "fail"
    /\ Top.route = MAX_LAYOUT_DEPTH + 1

C4_CacheSound ==
    /\ \A i \in DOMAIN stack :
           stack[i].pc = "ret" => stack[i].res = RefResult(stack[i])
    /\ last.op # "none" =>
           last.res = CachedBody(last.op, last.content, last.styles, last.regions,
                                 last.route, last.locBefore)
    /\ (/\ Len(stack) = 1
        /\ Top.pc = "ret"
        /\ MemoFn(Top.op) = MemoFn(last.op)
        /\ Top.content = last.content
        /\ Top.styles = last.styles
        /\ Top.regions = last.regions
        /\ Top.outerRoute = last.route
        /\ Top.outerLoc = last.locBefore) => Top.res = last.res

\* A measure call is answered from the cache with a multi-frame fragment.
C4_Witness ==
    /\ Len(stack) = 1
    /\ Top.op = "measure" /\ Top.hit /\ Top.res.ok /\ Top.res.frag.len > 1
    /\ last.op = "measure" /\ ~last.hit

C6_LayoutIsMeasureThenCommit ==
    /\ last.op = "layout" =>
           LET m == CachedBody("measure", last.content, last.styles, last.regions,
                               last.route, last.locBefore)
           IN  /\ last.res = m
               /\ last.locAfter = IF m.ok THEN VisitFrames(last.locBefore, m.frag)
                                  ELSE last.locBefore
    /\ \A i \in DOMAIN stack :
           stack[i].op = "layout" =>
               stack[i].outerLoc = IF i = 1 THEN locator ELSE stack[i - 1].loc
    /\ (/\ Len(stack) = 1 /\ Top.pc = "ret"
        /\ {Top.op, last.op} = {"layout", "measure"}
        /\ Top.content = last.content
        /\ Top.styles = last.styles
        /\ Top.regions = last.regions
        /\ Top.outerLoc = last.locBefore) => Top.res = last.res

\* A layout call returned a fragment of several frames and committed it.
C6_Witness ==
    /\ last.op = "layout" /\ last.res.ok
    /\ last.res.frag.ids > 1
    /\ last.locAfter = last.locBefore + last.res.frag.ids

\* C7: a failed computation gives layout's caller that error, no fragment
\* and an unchanged locator; a body whose nested call failed returns that
\* error at once; after a failed realization flow or document layout was
\* never started.
C7_ErrorShortCircuit ==
    /\ (last.op = "layout" /\ ~last.res.ok) =>
           /\ last.locAfter = last.locBefore
           /\ last.res.frag = NoFrag
           /\ last.res.err \in {"depth", "hook", "RegionsExhausted"}
    /\ \A i \in DOMAIN stack :
         LET f == stack[i] IN
         ~f.hit =>
             /\ f.childErr # "none" =>
                    /\ f.pc = "ret"
                    /\ f.res = Err(f.childErr)
                    /\ f.loc = f.outerLoc
             /\ (f.childErr # "none" /\ f.flow = "none") => ~f.flowRun
             /\ (f.pc = "ret" /\ f.res = Err("hook") /\ f.childErr = "none") =>
                    ~f.flowRun /\ f.flow = "none"
             /\ (f.pc = "ret" /\ f.checked = "fail") => ~f.flowRun /\ f.realized = 0

\* A layout call has returned the depth error that came up through its
\* nested calls, and the locator, advanced by an earlier layout, stayed.
C7_Witness ==
    /\ last.op = "layout"
    /\ last.res = Err("depth")
    /\ last.content = "rec"
    /\ last.route < MAX_LAYOUT_DEPTH
    /\ last.locBefore > 0
    /\ last.locAfter = last.locBefore

\* C8: in a measure body the depth guard runs first; a FlowElem is then
\* laid out directly with the caller's styles and never realized; other
\* content is realized exactly once and laid out with the flow and styles
\* realization returned.
C8_DispatchOrder ==
    \A i \in DOMAIN stack :
        LET f == stack[i] IN
        (RegionCall(f) /\ ~f.hit) =>
            /\ (f.realized > 0 \/ f.flowRun \/ f.pc \notin {"check", "ret"}) =>
                   f.checked = "pass"
            /\ f.checked = "fail" => f.realized = 0 /\ ~f.flowRun /\ f.pc = "ret"
            /\ IsFlowElem(f.content) =>
                   /\ f.realized = 0
                   /\ f.pc \in {"check", "dispatch", "flow", "ret"}
                   /\ (f.pc = "flow" \/ f.flowRun) =>
                          f.flow = f.content /\ f.flowStyles = f.styles
                   /\ f.flowRun =>
                          f.res = FlowLayout(f.content, f.styles, f.regions, f.outerLoc)
                   /\ (f.pc = "ret" /\ f.route > MAX_LAYOUT_DEPTH) =>
                          f.res = Err("depth")
            /\ ~IsFlowElem(f.content) =>
                   /\ f.realized <= 1
                   /\ (f.pc = "flow" \/ f.flowRun) =>
                          /\ f.realized = 1
                          /\ f.flow = Realize(f.content, f.styles).flow
                          /\ f.flowStyles = Realize(f.content, f.styles).styles
                   /\ f.pc \in {"check", "dispatch"} => f.realized = 0

\* A FlowElem went the fast path, inside a page.
C8_Witness ==
    \E i \in DOMAIN stack :
        /\ i > 1
        /\ IsFlowElem(stack[i].content)
        /\ ~stack[i].hit
        /\ stack[i].flowRun
        /\ stack[i].checked = "pass"
        /\ stack[i].res.ok

C10_AxisAlgebra ==
    /\ \A a \in Axes : Other(Other(a)) = a /\ Other(a) # a /\ Other(a) \in Axes
    /\ \A a \in Axes, p \in BOOLEAN :
           Dir(a, p) \in (IF a = "Horizontal" THEN {"LTR", "RTL"} ELSE {"TTB", "BTT"})
    /\ \A a1 \in Axes, a2 \in Axes, p1 \in BOOLEAN, p2 \in BOOLEAN :
           Dir(a1, p1) = Dir(a2, p2) => a1 = a2 /\ p1 = p2
    /\ {Dir(a, p) : a \in Axes, p \in BOOLEAN} = {"LTR", "RTL", "TTB", "BTT"}
    /\ gop = "get" => out = (IF axis = "Horizontal" THEN sp.x ELSE sp.y) /\ sp = spPrev
    /\ gop = "get_mut" =>
           /\ axis = "Horizontal" => sp.x = arg /\ sp.y = spPrev.y
           /\ axis = "Vertical" => sp.y = arg /\ sp.x = spPrev.x
    /\ gop = "to_gen" =>
           /\ out[2] = Get(sp, axis)
           /\ out[1] = Get(sp, Other(axis))
           /\ axis = "Horizontal" => out = <<sp.y, sp.x>>
           /\ axis = "Vertical" => out = <<sp.x, sp.y>>

\* to_gen was applied with a Horizontal block axis to unequal components.
C10_Witness ==
    /\ gop = "to_gen"
    /\ axis = "Horizontal"
    /\ sp.x # sp.y
    /\ out = <<sp.y, sp.x>>

===========================================================================
